---- MODULE Spec2Model ----
(***************************************************************************)
(* tt-log: reconstruction of work intervals from an issue's status         *)
(* change-log (JiraTaskProcessor) and proportional normalisation of the    *)
(* task durations to the daily budget (TimeAdjuster).                      *)
(*                                                                         *)
(* Time.  A datetime is an integer number of minutes on one time line;     *)
(* day d covers the minutes d*1440 .. d*1440+1439.  A timedelta held by an *)
(* Event is an integer number of seconds.  The product timedelta * float   *)
(* has microsecond resolution and is the record [s, us]: s whole seconds   *)
(* (floor) and 0 <= us < 10^6, which is Python's normalised form.          *)
(*                                                                         *)
(* Floats.  A proportion i / sum_of_items is kept as the exact ratio       *)
(* [num, den].  The double nearest to num/den is within 2^-53 of it, and   *)
(* timedelta.__mul__ rounds the exact product with that double to the      *)
(* nearest microsecond, half to even; for the denominators of this model   *)
(* (far below 2^14) that is the half-even rounding of the exact product.   *)
(***************************************************************************)
EXTENDS Integers, Sequences, FiniteSets, TLC

VARIABLES
    pc,          \* "input" while the arguments are assembled, "done" after the call
    tasks,       \* adjust_time: the task events passed in
    meetings,    \* adjust_time: the meeting events passed in
    adjusted,    \* adjust_time: what the call produced
    td_in,       \* _round_timedelta: the argument
    td_out,      \* _round_timedelta: the value returned
    issue,       \* _process_task: the issue passed in
    processed,   \* _process_task: the event returned and the lists it was built from
    data,        \* process_jira_tasks: the issues of the search result
    collected    \* process_jira_tasks: the events computed and the list returned

vars == <<pc, tasks, meetings, adjusted, td_in, td_out,
          issue, processed, data, collected>>

-----------------------------------------------------------------------------
(* Program constants *)

WORK_HOURS == 8
PERIOD_MINUTES == 5
EventType_OTHER == 1
EventType_TASK == 2
EventType_MEETING == 3

CUSHION_MINUTES == 10
NOT_FINISHED == "NOT FINISHED YET"

NoTasksToLog == "No tasks to log"
ZeroDivisionError == "division by zero"
ValueError == "arg is an empty sequence"

-----------------------------------------------------------------------------
(* Bounds of the model *)

MaxTasks == 4
MaxMeetings == 1
MaxPeriods == 3
MaxHistories == 3
MaxIssues == 3

\* raw task durations, in minutes
RawMinutes == {0, 20, 40}
\* meeting durations, in minutes
MeetingMinutes == {7, 60, 470}
\* key, title and event_type of the task events
TaskLabels ==
    { [key |-> "A-1", title |-> "alpha", event_type |-> EventType_TASK],
      [key |-> "working on project A", title |-> "", event_type |-> EventType_OTHER] }

-----------------------------------------------------------------------------
(* Values *)

Event(work_time, key, title, event_type) ==
    [work_time |-> work_time, key |-> key, title |-> title,
     event_type |-> event_type]

RECURSIVE SumSeq(_)
SumSeq(s) == IF s = <<>> THEN 0 ELSE Head(s) + SumSeq(Tail(s))

WorkTimes(events) == [i \in DOMAIN events |-> events[i].work_time]

\* min(tasks_times), max(tasks_times) and list.index
MinOf(s) == CHOOSE x \in {s[i] : i \in DOMAIN s} :
                \A y \in {s[i] : i \in DOMAIN s} : x <= y
MaxOf(s) == CHOOSE x \in {s[i] : i \in DOMAIN s} :
                \A y \in {s[i] : i \in DOMAIN s} : x >= y
Index(s, x) == CHOOSE i \in DOMAIN s :
                   s[i] = x /\ \A j \in DOMAIN s : s[j] = x => i <= j

\* timedelta * float, the float being the ratio p
TimedeltaMul(seconds, p) ==
    LET sign == IF p.den < 0 THEN -1 ELSE 1
        d    == sign * p.den
        n    == sign * seconds * p.num
        q    == n \div d
        r    == n % d
        ms   == (r * 1000) \div d
        r1   == (r * 1000) % d
        u    == (r1 * 1000) \div d
        r2   == (r1 * 1000) % d
        flo  == ms * 1000 + u
        up   == (2 * r2 > d) \/ (2 * r2 = d /\ flo % 2 = 1)
        us   == IF up THEN flo + 1 ELSE flo
    IN  IF us = 1000 * 1000 THEN [s |-> q + 1, us |-> 0]
                            ELSE [s |-> q, us |-> us]

-----------------------------------------------------------------------------
(* TimeAdjuster *)

\* _round_timedelta with `>` for `>=`: an exact half rounds down
RoundTimedelta_HalfDown(td) ==
    LET period_seconds      == PERIOD_MINUTES * 60
        half_period_seconds == period_seconds \div 2
        remainder           == [s |-> td.s % period_seconds, us |-> td.us]
    IN  IF remainder.s > half_period_seconds
           \/ (remainder.s = half_period_seconds /\ remainder.us > 0)
        THEN td.s + (period_seconds - remainder.s)
        ELSE td.s - remainder.s

RoundTimedelta(td) ==
    LET period_seconds      == PERIOD_MINUTES * 60
        half_period_seconds == period_seconds \div 2
        remainder           == [s |-> td.s % period_seconds, us |-> td.us]
    IN  IF remainder.s >= half_period_seconds
        THEN td.s + (period_seconds - remainder.s)
        ELSE td.s - remainder.s

\* `sum_of_items == 0` compares a timedelta with an int and is never true, so
\* the division is always reached; a zero denominator is the ZeroDivisionError
Proportions(items) ==
    LET sum_of_items == SumSeq(items)
    IN  [i \in DOMAIN items |-> [num |-> items[i], den |-> sum_of_items]]

\* _calculate_tasks_times without the residual: the rounded values are returned
CalculateTasksTimes_NoResidual(tasks_times, tasks_must_be_time) ==
    LET proportions == Proportions(tasks_times)
        scaled  == [i \in DOMAIN proportions |->
                       TimedeltaMul(tasks_must_be_time, proportions[i])]
        rounded == [i \in DOMAIN scaled |-> RoundTimedelta(scaled[i])]
    IN  [raised |-> "", rounded |-> rounded, times |-> rounded]

\* _calculate_tasks_times taking the last of several equal minima (maxima)
CalculateTasksTimes_LastIndex(tasks_times, tasks_must_be_time) ==
    LET proportions == Proportions(tasks_times)
        scaled  == [i \in DOMAIN proportions |->
                       TimedeltaMul(tasks_must_be_time, proportions[i])]
        rounded == [i \in DOMAIN scaled |-> RoundTimedelta(scaled[i])]
        diff_after_rounding == tasks_must_be_time - SumSeq(rounded)
        wanted   == IF diff_after_rounding > 0 THEN MinOf(rounded)
                                               ELSE MaxOf(rounded)
        time_idx == CHOOSE i \in DOMAIN rounded :
                        rounded[i] = wanted
                        /\ \A j \in DOMAIN rounded : rounded[j] = wanted => j <= i
    IN  [raised  |-> "",
         rounded |-> rounded,
         times   |-> [rounded EXCEPT ![time_idx] = @ + diff_after_rounding]]

\* [raised, rounded, times]: times is the list returned, rounded is tasks_times
\* before the residual is added; min() and max() of an empty list raise
CalculateTasksTimes(tasks_times, tasks_must_be_time) ==
    LET proportions == Proportions(tasks_times)
    IN  IF \E i \in DOMAIN proportions : proportions[i].den = 0
        THEN [raised |-> ZeroDivisionError, rounded |-> <<>>, times |-> <<>>]
        ELSE IF tasks_times = <<>>
        THEN [raised |-> ValueError, rounded |-> <<>>, times |-> <<>>]
        ELSE
        LET scaled  == [i \in DOMAIN proportions |->
                           TimedeltaMul(tasks_must_be_time, proportions[i])]
            rounded == [i \in DOMAIN scaled |-> RoundTimedelta(scaled[i])]
            calculated_tasks_time == SumSeq(rounded)
            diff_after_rounding   == tasks_must_be_time - calculated_tasks_time
            time_idx == IF diff_after_rounding > 0
                        THEN Index(rounded, MinOf(rounded))
                        ELSE Index(rounded, MaxOf(rounded))
        IN  [raised  |-> "",
             rounded |-> rounded,
             times   |-> [rounded EXCEPT ![time_idx] = @ + diff_after_rounding]]

\* _apply_new_work_time leaving event_type to its default
ApplyNewWorkTime_DefaultType(events, tasks_times) ==
    [i \in 1..(IF Len(events) < Len(tasks_times)
               THEN Len(events) ELSE Len(tasks_times)) |->
        Event(tasks_times[i], events[i].key, events[i].title, EventType_OTHER)]

\* zip() stops at the shorter list
ApplyNewWorkTime(events, tasks_times) ==
    [i \in 1..(IF Len(events) < Len(tasks_times)
               THEN Len(events) ELSE Len(tasks_times)) |->
        Event(tasks_times[i], events[i].key, events[i].title,
              events[i].event_type)]

\* adjust_time without the test of all_tasks_time
AdjustTime_NoGuard(task_events, meeting_events) ==
    LET tasks_must_be_time ==
            WORK_HOURS * 3600 - SumSeq(WorkTimes(meeting_events))
        calc == CalculateTasksTimes(WorkTimes(task_events), tasks_must_be_time)
    IN  IF calc.raised # ""
        THEN [raised |-> calc.raised, rounded |-> <<>>, tasks |-> <<>>]
        ELSE [raised  |-> "",
              rounded |-> calc.rounded,
              tasks   |-> ApplyNewWorkTime(task_events, calc.times)]

\* adjust_time: [raised, rounded, tasks]; raised is "" when the call returns,
\* rounded is tasks_times before the residual is added
AdjustTime(task_events, meeting_events) ==
    LET workday_hours     == WORK_HOURS * 3600
        all_meetings_time == SumSeq(WorkTimes(meeting_events))
        all_tasks_time    == SumSeq(WorkTimes(task_events))
    IN  IF all_tasks_time = 0
        THEN [raised |-> NoTasksToLog, rounded |-> <<>>, tasks |-> <<>>]
        ELSE
        LET tasks_must_be_time == workday_hours - all_meetings_time
            calc == CalculateTasksTimes(WorkTimes(task_events),
                                        tasks_must_be_time)
        IN  IF calc.raised # ""
            THEN [raised |-> calc.raised, rounded |-> <<>>, tasks |-> <<>>]
            ELSE [raised  |-> "",
                  rounded |-> calc.rounded,
                  tasks   |-> ApplyNewWorkTime(task_events, calc.times)]

-----------------------------------------------------------------------------
(* Configuration and the day of the run *)

\* JiraConfig
assignee_name == "me"
status_field == "status"
start_work_status == "In Progress"
stop_work_status_primary == "Done"
stop_work_status_secondary == "In Review"

\* a status that neither starts nor stops work, and a field that is no status
ToDo == "To Do"
LabelsField == "labels"

MinutesPerDay == 24 * 60
DateOf(t) == t \div MinutesPerDay
At(day, hour, minute) == day * MinutesPerDay + hour * 60 + minute

\* main(): the date to log, config['i_start_work_at'] and the two timestamps
date_to_compare == DateOf(At(1, 0, 0))
i_start_work_at == 9
start_work_timestamp == At(date_to_compare, i_start_work_at, 0)
stop_work_timestamp == start_work_timestamp + WORK_HOURS * 60

-----------------------------------------------------------------------------
(* JiraTaskProcessor *)

TimeInterval(start, stop, from_status, to_status) ==
    [start |-> start, stop |-> stop,
     from_status |-> from_status, to_status |-> to_status]

StatusChange(created, to_status) == [created |-> created, to_status |-> to_status]

\* TimeInterval.duration, as the seconds of the timedelta
Duration(interval) == (interval.stop - interval.start) * 60

\* is_between looking at the start alone: the interval must begin on the date
IsBetween_StartOnly(interval, timestamp) ==
    DateOf(interval.start) = timestamp

\* TimeInterval.is_between
IsBetween(interval, timestamp) ==
    DateOf(interval.start) <= timestamp /\ timestamp <= DateOf(interval.stop)

Reversed(s) == [i \in 1..Len(s) |-> s[Len(s) + 1 - i]]

\* the positions 1..n in order, for a comprehension over zip(xs, xs[1:])
Positions(n) == [i \in 1..n |-> i]

IsStatusHistory(obj) ==
    /\ obj.items # <<>>
    /\ obj.items[1].field = status_field

\* _status_changes_list without reversed(): the newest change comes first
StatusChangesList_NoReverse(histories) ==
    LET kept == SelectSeq(histories, IsStatusHistory)
    IN  [i \in DOMAIN kept |->
            StatusChange(kept[i].created, kept[i].items[1].toString)]

StatusChangesList(histories) ==
    LET kept == SelectSeq(Reversed(histories), IsStatusHistory)
    IN  [i \in DOMAIN kept |->
            StatusChange(kept[i].created, kept[i].items[1].toString)]

\* _work_intervals pairing a start only with stop_work_status_primary
WorkIntervals_PrimaryOnly(changes, current_status) ==
    IF changes = <<>> THEN <<>>
    ELSE
    LET hits == SelectSeq(Positions(Len(changes) - 1),
                    LAMBDA i : /\ changes[i].to_status = start_work_status
                               /\ changes[i + 1].to_status = stop_work_status_primary)
        result == [k \in DOMAIN hits |->
                      TimeInterval(changes[hits[k]].created,
                                   changes[hits[k] + 1].created,
                                   changes[hits[k]].to_status,
                                   changes[hits[k] + 1].to_status)]
        last == changes[Len(changes)]
    IN  IF current_status = start_work_status
           /\ last.to_status = start_work_status
        THEN Append(result,
                 TimeInterval(last.created,
                     IF stop_work_timestamp > last.created
                     THEN stop_work_timestamp
                     ELSE last.created + CUSHION_MINUTES,
                     last.to_status, NOT_FINISHED))
        ELSE result

\* _work_intervals ending unfinished work at the end of the workday always
WorkIntervals_NoCushion(changes, current_status) ==
    IF changes = <<>> THEN <<>>
    ELSE
    LET stop_statuses == {stop_work_status_primary, stop_work_status_secondary}
        hits == SelectSeq(Positions(Len(changes) - 1),
                    LAMBDA i : /\ changes[i].to_status = start_work_status
                               /\ changes[i + 1].to_status \in stop_statuses)
        result == [k \in DOMAIN hits |->
                      TimeInterval(changes[hits[k]].created,
                                   changes[hits[k] + 1].created,
                                   changes[hits[k]].to_status,
                                   changes[hits[k] + 1].to_status)]
        last == changes[Len(changes)]
    IN  IF current_status = start_work_status
           /\ last.to_status = start_work_status
        THEN Append(result,
                 TimeInterval(last.created, stop_work_timestamp,
                              last.to_status, NOT_FINISHED))
        ELSE result

WorkIntervals(changes, current_status) ==
    IF changes = <<>> THEN <<>>
    ELSE
    LET start_status  == start_work_status
        stop_statuses == {stop_work_status_primary, stop_work_status_secondary}
        \* zip(changes, changes[1:])
        hits == SelectSeq(Positions(Len(changes) - 1),
                    LAMBDA i : /\ changes[i].to_status = start_status
                               /\ changes[i + 1].to_status \in stop_statuses)
        result == [k \in DOMAIN hits |->
                      TimeInterval(changes[hits[k]].created,
                                   changes[hits[k] + 1].created,
                                   changes[hits[k]].to_status,
                                   changes[hits[k] + 1].to_status)]
        last == changes[Len(changes)]
    IN  IF current_status = start_status /\ last.to_status = start_status
        THEN LET stop_timestamp ==
                     IF stop_work_timestamp > last.created
                     THEN stop_work_timestamp
                     ELSE last.created + CUSHION_MINUTES
                 stop == StatusChange(stop_timestamp, NOT_FINISHED)
             IN  Append(result,
                        TimeInterval(last.created, stop.created,
                                     last.to_status, stop.to_status))
        ELSE result

\* [status_changes_list, work_intervals, on_date]: on_date is the list returned
IntervalsOnDate(histories, current_status) ==
    LET status_changes_list == StatusChangesList(histories)
        work_intervals == WorkIntervals(status_changes_list, current_status)
        on_date == SelectSeq(work_intervals,
                             LAMBDA obj : IsBetween(obj, date_to_compare))
    IN  [status_changes_list |-> status_changes_list,
         work_intervals      |-> work_intervals,
         on_date             |-> on_date]

\* the TimeInterval built for one interval of on_date
LimitedByWorkHours(obj) ==
    TimeInterval(
        IF obj.start > start_work_timestamp
        THEN obj.start ELSE start_work_timestamp,
        IF obj.stop < stop_work_timestamp \/ stop_work_timestamp < obj.start
        THEN obj.stop ELSE stop_work_timestamp,
        obj.from_status, obj.to_status)

CurrentStatus(obj) == obj.fields.status.name

\* [status_changes_list, work_intervals, on_date, limited_by_work_hours, event]:
\* event is the Event returned, the lists are the locals it was built from
ProcessTask(obj) ==
    LET histories      == obj.changelog.histories
        key            == obj.key
        title          == obj.fields.summary
        current_status == CurrentStatus(obj)
        found          == IntervalsOnDate(histories, current_status)
        limited_by_work_hours ==
            [i \in DOMAIN found.on_date |-> LimitedByWorkHours(found.on_date[i])]
        durations == [i \in DOMAIN limited_by_work_hours |->
                         Duration(limited_by_work_hours[i])]
        work_time == SumSeq(durations)
    IN  [status_changes_list   |-> found.status_changes_list,
         work_intervals        |-> found.work_intervals,
         on_date               |-> found.on_date,
         limited_by_work_hours |-> limited_by_work_hours,
         event |-> Event(work_time, key, title, EventType_TASK)]

\* _get_tasks_for_assignee; a missing assignee has the name ""
GetTasksForAssignee(d, assignee) ==
    SelectSeq(d.issues,
              LAMBDA obj : /\ obj.fields.assignee.name # ""
                           /\ obj.fields.assignee.name = assignee)

HasMandatoryFields(obj) ==
    /\ obj.changelog.histories # <<>>
    /\ obj.fields.status.name # ""

\* every order of the elements of the set S
Orderings(S) ==
    { f \in [1..Cardinality(S) -> S] :
        \A i, j \in 1..Cardinality(S) : i # j => f[i] # f[j] }

\* _remove_duplicates_and_errors without set(): only the filter
RemoveDuplicatesAndErrors_NoSet(evs) ==
    { SelectSeq(evs, LAMBDA event : event.work_time # 0) }

\* the lists list(set(...)) can be: a set has no order of its own
RemoveDuplicatesAndErrors(evs) ==
    Orderings({ evs[i] : i \in { j \in DOMAIN evs : evs[j].work_time # 0 } })

\* [computed, returned]: computed is the list of _process_task results,
\* returned the set of lists process_jira_tasks can return
ProcessJiraTasks(d) ==
    LET mine     == GetTasksForAssignee(d, assignee_name)
        eligible == SelectSeq(mine, HasMandatoryFields)
        computed == [i \in DOMAIN eligible |-> ProcessTask(eligible[i])]
    IN  [computed |-> computed,
         returned |-> RemoveDuplicatesAndErrors(
                          [i \in DOMAIN computed |-> computed[i].event])]

-----------------------------------------------------------------------------
(* The state before a call *)

NoResult == [raised |-> "", rounded |-> <<>>, tasks |-> <<>>]
NoTd == [s |-> 0, us |-> 0]

\* an issue as the search returns it: fields.assignee and fields.status always
\* records here, a missing one having the name ""
Issue(key, summary, assignee, status, histories) ==
    [key       |-> key,
     fields    |-> [summary  |-> summary,
                    assignee |-> [name |-> assignee],
                    status   |-> [name |-> status]],
     changelog |-> [histories |-> histories]]

NoIssue == Issue("", "", "", "", <<>>)
NoProcessed ==
    [status_changes_list |-> <<>>, work_intervals |-> <<>>, on_date |-> <<>>,
     limited_by_work_hours |-> <<>>, event |-> Event(0, "", "", EventType_TASK)]
NoCollected == [computed |-> <<>>, returned |-> <<>>]

Idle ==
    /\ pc = "input"
    /\ tasks = <<>>
    /\ meetings = <<>>
    /\ adjusted = NoResult
    /\ td_in = NoTd
    /\ td_out = 0
    /\ processed = NoProcessed
    /\ data = [issues |-> <<>>]
    /\ collected = NoCollected

-----------------------------------------------------------------------------
(* Specification Spec: one call of TimeAdjuster.adjust_time *)

Init == Idle /\ issue = NoIssue

\* the task list is assembled first, then the meeting list
AddTask ==
    /\ pc = "input"
    /\ Len(tasks) < MaxTasks
    /\ meetings = <<>>
    /\ \E m \in RawMinutes, l \in TaskLabels :
          tasks' = Append(tasks, Event(m * 60, l.key, l.title, l.event_type))
    /\ UNCHANGED <<pc, meetings, adjusted, td_in, td_out,
                   issue, processed, data, collected>>

AddMeeting ==
    /\ pc = "input"
    /\ Len(meetings) < MaxMeetings
    /\ \E m \in MeetingMinutes :
          meetings' = Append(meetings, Event(m * 60, "", "standup", EventType_MEETING))
    /\ UNCHANGED <<pc, tasks, adjusted, td_in, td_out,
                   issue, processed, data, collected>>

CallAdjustTime ==
    /\ pc = "input"
    /\ adjusted' = AdjustTime(tasks, meetings)
    /\ pc' = "done"
    /\ UNCHANGED <<tasks, meetings, td_in, td_out, issue, processed, data, collected>>

Next == AddTask \/ AddMeeting \/ CallAdjustTime

Spec == Init /\ [][Next]_vars

-----------------------------------------------------------------------------
(* Specification SpecRound: one call of TimeAdjuster._round_timedelta *)

\* the arguments: every whole second of the first periods, with the
\* microseconds at both ends and in the middle of a second
RoundSeconds == 0 .. ((MaxPeriods + 1) * PERIOD_MINUTES * 60 - 1)
RoundMicros == {0, 1, 500000, 999999}

InitRound == Idle /\ issue = NoIssue

CallRoundTimedelta ==
    /\ pc = "input"
    /\ \E sec \in RoundSeconds, u \in RoundMicros :
          /\ td_in' = [s |-> sec, us |-> u]
          /\ td_out' = RoundTimedelta([s |-> sec, us |-> u])
    /\ pc' = "done"
    /\ UNCHANGED <<tasks, meetings, adjusted, issue, processed, data, collected>>

NextRound == CallRoundTimedelta

SpecRound == InitRound /\ [][NextRound]_vars

-----------------------------------------------------------------------------
(* Specification SpecIssue: one call of JiraTaskProcessor._process_task *)

\* the times of the change-log records: the day before, the day of the run
\* before, within, at the end of and after the work hours, and twice the day
\* after
Clock ==
    { At(0, 12, 0), At(1, 7, 0), At(1, 8, 0), At(1, 10, 0),
      At(1, 17, 0), At(1, 18, 0), At(1, 19, 0), At(2, 10, 0), At(2, 11, 0) }

Item(field, toString) == [field |-> field, toString |-> toString]

\* the items of a change-log record: none, a status change first, another
\* field first
ItemsPool ==
    { <<>>,
      <<Item(status_field, start_work_status)>>,
      <<Item(status_field, stop_work_status_primary)>>,
      <<Item(status_field, stop_work_status_secondary)>>,
      <<Item(status_field, ToDo)>>,
      <<Item(LabelsField, "urgent"), Item(status_field, stop_work_status_primary)>> }

History(created, items) == [created |-> created, items |-> items]

InitIssue ==
    /\ Idle
    /\ \E status \in {start_work_status, stop_work_status_primary} :
          issue = Issue("A-1", "alpha", assignee_name, status, <<>>)

\* the change-log is newest first: a later record goes in front
AddHistory ==
    /\ pc = "input"
    /\ Len(issue.changelog.histories) < MaxHistories
    /\ \E t \in Clock, items \in ItemsPool :
          /\ \A i \in DOMAIN issue.changelog.histories :
                issue.changelog.histories[i].created < t
          /\ issue' = [issue EXCEPT !.changelog.histories =
                                        <<History(t, items)>> \o @]
    /\ UNCHANGED <<pc, tasks, meetings, adjusted, td_in, td_out,
                   processed, data, collected>>

CallProcessTask ==
    /\ pc = "input"
    /\ processed' = ProcessTask(issue)
    /\ pc' = "done"
    /\ UNCHANGED <<tasks, meetings, adjusted, td_in, td_out, issue, data, collected>>

NextIssue == AddHistory \/ CallProcessTask

SpecIssue == InitIssue /\ [][NextIssue]_vars

-----------------------------------------------------------------------------
(* Specification SpecJira: one call of JiraTaskProcessor.process_jira_tasks *)

StatusRecord(t, to_status) == History(t, <<Item(status_field, to_status)>>)

\* change-logs, newest first: an hour of work, an hour of work at another
\* time, no work, an hour of work before the work hours
HistoriesPool ==
    { <<StatusRecord(At(1, 11, 0), stop_work_status_primary),
        StatusRecord(At(1, 10, 0), start_work_status)>>,
      <<StatusRecord(At(1, 14, 0), stop_work_status_secondary),
        StatusRecord(At(1, 13, 0), start_work_status)>>,
      <<StatusRecord(At(1, 10, 0), ToDo)>>,
      <<StatusRecord(At(1, 8, 0), stop_work_status_primary),
        StatusRecord(At(1, 7, 0), start_work_status)>> }

AnHourOfWork ==
    <<StatusRecord(At(1, 11, 0), stop_work_status_primary),
      StatusRecord(At(1, 10, 0), start_work_status)>>

\* the issues of a search result: the assignee's with every change-log, and
\* one each of another assignee, no assignee, no change-log, no status
IssuesPool ==
    { Issue(l.key, l.summary, assignee_name, stop_work_status_primary, h) :
        l \in { [key |-> "A-1", summary |-> "alpha"],
                [key |-> "A-2", summary |-> "beta"] },
        h \in HistoriesPool }
    \cup
    { Issue("A-3", "gamma", "other", stop_work_status_primary, AnHourOfWork),
      Issue("A-4", "delta", "", stop_work_status_primary, AnHourOfWork),
      Issue("A-5", "epsilon", assignee_name, stop_work_status_primary, <<>>),
      Issue("A-6", "zeta", assignee_name, "", AnHourOfWork) }

InitJira == Idle /\ issue = NoIssue

AddIssue ==
    /\ pc = "input"
    /\ Len(data.issues) < MaxIssues
    /\ \E obj \in IssuesPool : data' = [issues |-> Append(data.issues, obj)]
    /\ UNCHANGED <<pc, tasks, meetings, adjusted, td_in, td_out,
                   issue, processed, collected>>

CallProcessJiraTasks ==
    /\ pc = "input"
    /\ LET r == ProcessJiraTasks(data)
       IN  \E returned \in r.returned :
               collected' = [computed |-> r.computed, returned |-> returned]
    /\ pc' = "done"
    /\ UNCHANGED <<tasks, meetings, adjusted, td_in, td_out, issue, processed, data>>

NextJira == AddIssue \/ CallProcessJiraTasks

SpecJira == InitJira /\ [][NextJira]_vars

-----------------------------------------------------------------------------
(* Claims about TimeAdjuster *)

Returned == pc = "done" /\ adjusted.raised = ""
RawTotal == SumSeq(WorkTimes(tasks))
MeetingTotal == SumSeq(WorkTimes(meetings))
TargetTotal == WORK_HOURS * 3600 - MeetingTotal
Residual == TargetTotal - SumSeq(adjusted.rounded)
Granularity == PERIOD_MINUTES * 60

\* C1: when the raw task durations sum to a non-zero amount, adjust_time
\* returns task durations whose sum is exactly WORK_HOURS minus the total
\* meeting duration, so tasks plus meetings make exactly the daily budget.
C1_ExactBudget ==
    (pc = "done" /\ RawTotal # 0) =>
        /\ adjusted.raised = ""
        /\ SumSeq(WorkTimes(adjusted.tasks)) = TargetTotal
        /\ SumSeq(WorkTimes(adjusted.tasks)) + MeetingTotal = WORK_HOURS * 3600

\* a call with meetings where rounding left a residual to absorb
C1_Witness ==
    /\ Returned
    /\ RawTotal # 0
    /\ meetings # <<>>
    /\ Len(adjusted.tasks) >= 2
    /\ Residual # 0

\* C2 (as claimed): for every non-empty raw duration list with non-zero sum
\* and every target total, every duration the normalizer outputs, the one
\* absorbing the residual included, is a non-negative multiple of 5 minutes.
C2_NonNegativeMultiples ==
    (Returned /\ tasks # <<>> /\ RawTotal # 0) =>
        \A i \in DOMAIN adjusted.tasks :
            /\ adjusted.tasks[i].work_time >= 0
            /\ adjusted.tasks[i].work_time % Granularity = 0

\* C2 (as claimed), restricted to target totals that are themselves a
\* non-negative multiple of 5 minutes, where outputs meeting the claim exist.
C2_NonNegativeOnGranularTarget ==
    (Returned /\ tasks # <<>> /\ RawTotal # 0
       /\ TargetTotal >= 0 /\ TargetTotal % Granularity = 0) =>
        \A i \in DOMAIN adjusted.tasks :
            /\ adjusted.tasks[i].work_time >= 0
            /\ adjusted.tasks[i].work_time % Granularity = 0

\* C4: when the raw task durations sum to zero (every task zero, or no task)
\* adjust_time fails with 'No tasks to log', returns no task list, and the
\* division of _proportions is not reached (no division by zero is raised).
C4_NoTasksError ==
    (pc = "done" /\ RawTotal = 0) =>
        /\ adjusted.raised = NoTasksToLog
        /\ adjusted.raised # ZeroDivisionError
        /\ adjusted.tasks = <<>>
        /\ adjusted.rounded = <<>>

\* a call with several tasks, every one of zero duration
C4_Witness ==
    /\ pc = "done"
    /\ Len(tasks) >= 2
    /\ \A i \in DOMAIN tasks : tasks[i].work_time = 0
    /\ adjusted.raised = NoTasksToLog

\* C7: the whole residual is added to exactly one task and every other task
\* keeps its rounded value; a residual > 0 goes to the smallest rounded
\* duration, a residual <= 0 to the largest, and among equal ones to the first
\* in input order.
C7_ResidualToFirstExtreme ==
    Returned =>
        /\ Len(adjusted.tasks) = Len(adjusted.rounded)
        /\ \E k \in DOMAIN adjusted.rounded :
              /\ adjusted.tasks[k].work_time = adjusted.rounded[k] + Residual
              /\ \A j \in DOMAIN adjusted.rounded :
                    j # k => adjusted.tasks[j].work_time = adjusted.rounded[j]
              /\ Residual > 0 =>
                    \A j \in DOMAIN adjusted.rounded :
                        /\ adjusted.rounded[k] <= adjusted.rounded[j]
                        /\ j < k => adjusted.rounded[k] < adjusted.rounded[j]
              /\ Residual <= 0 =>
                    \A j \in DOMAIN adjusted.rounded :
                        /\ adjusted.rounded[k] >= adjusted.rounded[j]
                        /\ j < k => adjusted.rounded[k] > adjusted.rounded[j]

\* several tasks tie for the extreme and a non-zero residual went to the first
C7_Witness ==
    /\ Returned
    /\ Residual # 0
    /\ \E i, j \in DOMAIN adjusted.rounded :
          /\ i < j
          /\ adjusted.rounded[i] = adjusted.rounded[j]
          /\ adjusted.tasks[i].work_time = adjusted.rounded[i] + Residual
          /\ adjusted.tasks[j].work_time = adjusted.rounded[j]

\* C10: adjust_time leaves the task list, its events and the meeting list as
\* they were and returns a list of the same length and order whose i-th event
\* has the key, title and event_type of the i-th input, only work_time being
\* replaced by the corrected duration.
C10_NewEventsInputsKept ==
    [][(pc = "input" /\ pc' = "done") =>
          /\ tasks' = tasks
          /\ meetings' = meetings
          /\ adjusted'.raised = "" =>
                /\ Len(adjusted'.tasks) = Len(tasks)
                /\ \A i \in DOMAIN tasks :
                      /\ adjusted'.tasks[i].key = tasks[i].key
                      /\ adjusted'.tasks[i].title = tasks[i].title
                      /\ adjusted'.tasks[i].event_type = tasks[i].event_type
                      /\ adjusted'.tasks[i].work_time \in
                            { adjusted'.rounded[i],
                              adjusted'.rounded[i] + TargetTotal
                                  - SumSeq(adjusted'.rounded) }]_vars

\* a call that returned events of both kinds with durations that changed
C10_Witness ==
    /\ Returned
    /\ \E i, j \in DOMAIN tasks :
          /\ tasks[i].event_type = EventType_TASK
          /\ tasks[j].event_type = EventType_OTHER
          /\ adjusted.tasks[i].work_time # tasks[i].work_time
          /\ adjusted.tasks[j].event_type = EventType_OTHER

-----------------------------------------------------------------------------
(* Claims about _round_timedelta *)

Micro == 1000 * 1000
TdInMicros == td_in.s * Micro + td_in.us

\* C8: _round_timedelta maps a non-negative duration to the nearest multiple
\* of 5 minutes, half up: a remainder of 150 s or more goes to the next
\* multiple, a smaller one goes down, a multiple is returned unchanged.
C8_RoundHalfUp ==
    pc = "done" =>
        /\ td_out >= 0
        /\ td_out % Granularity = 0
        /\ (td_out - Granularity \div 2) * Micro <= TdInMicros
        /\ TdInMicros < (td_out + Granularity \div 2) * Micro
        /\ (td_in.s % Granularity = 0 /\ td_in.us = 0) => td_out = td_in.s

\* a duration exactly half a period above a multiple, rounded up
C8_Witness ==
    /\ pc = "done"
    /\ td_in.s % Granularity = Granularity \div 2
    /\ td_in.us = 0
    /\ td_in.s > Granularity
    /\ td_out = td_in.s + Granularity \div 2

-----------------------------------------------------------------------------
(* Claims about JiraTaskProcessor *)

Changes == processed.status_changes_list
Intervals == processed.work_intervals
OnDate == processed.on_date
Limited == processed.limited_by_work_hours
StopStatuses == {stop_work_status_primary, stop_work_status_secondary}

\* C3 (as claimed): clipping an on-date interval with start <= stop to the
\* workday window never yields stop < start, wherever the interval lies, and
\* an interval fully after the workday end clips to zero duration.
C3_ClipNeverNegative ==
    pc = "done" =>
        \A i \in DOMAIN Limited :
            OnDate[i].start <= OnDate[i].stop =>
                /\ Limited[i].start <= Limited[i].stop
                /\ OnDate[i].start > stop_work_timestamp =>
                       Limited[i].stop = Limited[i].start

\* C3, first half alone: no clipped interval has stop < start.
C3_NoStopBeforeStart ==
    pc = "done" =>
        \A i \in DOMAIN Limited :
            OnDate[i].start <= OnDate[i].stop =>
                Limited[i].start <= Limited[i].stop

\* C3, second half alone: an interval fully after the workday end clips to
\* zero duration.
C3_AfterHoursClipsToZero ==
    pc = "done" =>
        \A i \in DOMAIN Limited :
            OnDate[i].start > stop_work_timestamp =>
                Limited[i].stop = Limited[i].start

\* the positions a of the change list where a starts work and a + 1 stops it
PairStarts ==
    { a \in 1..(Len(Changes) - 1) :
        /\ Changes[a].to_status = start_work_status
        /\ Changes[a + 1].to_status \in StopStatuses }
\* the k-th of them
PairStart(k) ==
    CHOOSE a \in PairStarts : Cardinality({ b \in PairStarts : b <= a }) = k
\* the intervals of the result that the pairing step emitted
Paired == SelectSeq(Intervals, LAMBDA obj : obj.to_status # NOT_FINISHED)
ToStatuses == [i \in DOMAIN Changes |-> Changes[i].to_status]

\* C5: the pairing step emits one interval (a.created, b.created) for exactly
\* the consecutive pairs (a, b) where a targets start_status and b one of the
\* two stop statuses, in order, and no other: `start, other, stop` yields
\* none, `start, stop` one, `start, start, stop` one from the second start.
C5_PairsAdjacentStartStop ==
    pc = "done" =>
        /\ Len(Paired) = Cardinality(PairStarts)
        /\ \A k \in DOMAIN Paired :
              /\ Paired[k].start = Changes[PairStart(k)].created
              /\ Paired[k].stop = Changes[PairStart(k) + 1].created
              /\ Paired[k].from_status = Changes[PairStart(k)].to_status
              /\ Paired[k].to_status = Changes[PairStart(k) + 1].to_status
        /\ \A mid \in {ToDo, start_work_status}, stop \in StopStatuses :
              /\ ToStatuses = <<start_work_status, ToDo, stop>> => Paired = <<>>
              /\ ToStatuses = <<start_work_status, stop>> => Len(Paired) = 1
              /\ ToStatuses = <<start_work_status, start_work_status, stop>> =>
                    /\ Len(Paired) = 1
                    /\ Paired[1].start = Changes[2].created

\* `start, start, stop` with the secondary stop status: one interval, from
\* the second start
C5_Witness ==
    /\ pc = "done"
    /\ ToStatuses = <<start_work_status, start_work_status,
                      stop_work_status_secondary>>
    /\ Len(Paired) = 1
    /\ Paired[1].start = Changes[2].created
    /\ Paired[1].start > Changes[1].created

\* the intervals of the result that were synthesized for unfinished work
Synthesized == SelectSeq(Intervals, LAMBDA obj : obj.to_status = NOT_FINISHED)
Unfinished ==
    /\ Changes # <<>>
    /\ CurrentStatus(issue) = start_work_status
    /\ Changes[Len(Changes)].to_status = start_work_status

\* C6: a 'NOT FINISHED YET' interval is appended if and only if the change
\* list is non-empty, the current status is start_status and the last
\* transition targets start_status; it starts at that transition and stops
\* at the workday end when that is strictly later than the transition,
\* otherwise exactly 10 minutes after the transition, so its length is > 0.
C6_UnfinishedInterval ==
    pc = "done" =>
        /\ Unfinished <=> Synthesized # <<>>
        /\ Len(Synthesized) <= 1
        /\ Synthesized # <<>> =>
              LET last == Changes[Len(Changes)]
                  made == Intervals[Len(Intervals)]
              IN  /\ made = Synthesized[1]
                  /\ made.start = last.created
                  /\ made.from_status = start_work_status
                  /\ stop_work_timestamp > last.created =>
                         made.stop = stop_work_timestamp
                  /\ stop_work_timestamp <= last.created =>
                         made.stop = last.created + CUSHION_MINUTES
                  /\ made.stop > made.start

\* work started after the end of the workday and not finished: the interval
\* made stops 10 minutes after the start
C6_Witness ==
    /\ pc = "done"
    /\ Unfinished
    /\ Changes[Len(Changes)].created > stop_work_timestamp
    /\ Len(Intervals) >= 2
    /\ Intervals[Len(Intervals)].to_status = NOT_FINISHED
    /\ Intervals[Len(Intervals)].stop =
           Changes[Len(Changes)].created + CUSHION_MINUTES

\* the positions of the work intervals whose dates enclose the date of the run
OnDatePositions ==
    { i \in DOMAIN Intervals :
        /\ Intervals[i].start \div MinutesPerDay <= date_to_compare
        /\ date_to_compare <= Intervals[i].stop \div MinutesPerDay }
\* the k-th of them
OnDatePosition(k) ==
    CHOOSE i \in OnDatePositions :
        Cardinality({ j \in OnDatePositions : j <= i }) = k

\* C11: _intervals_on_date keeps an unclipped work interval if and only if
\* the date of its start <= the target date <= the date of its stop, both
\* ends included, so an interval crossing midnight is kept on the date of
\* its start and on the date of its stop, and an interval of any other date
\* adds nothing to the task's duration.
C11_KeptIffDatesEnclose ==
    pc = "done" =>
        /\ Len(OnDate) = Cardinality(OnDatePositions)
        /\ \A k \in DOMAIN OnDate : OnDate[k] = Intervals[OnDatePosition(k)]
        /\ Len(Limited) = Len(OnDate)
        /\ processed.event.work_time =
               SumSeq([k \in DOMAIN Limited |->
                          (Limited[k].stop - Limited[k].start) * 60])
        /\ OnDatePositions = {} => processed.event.work_time = 0

\* two intervals: one from the day before into the work hours of the day of
\* the run, kept and counted, and one of the day after, dropped
C11_Witness ==
    /\ pc = "done"
    /\ Len(Intervals) = 2
    /\ Intervals[1].start \div MinutesPerDay < date_to_compare
    /\ Intervals[1].stop \div MinutesPerDay = date_to_compare
    /\ Intervals[2].start \div MinutesPerDay > date_to_compare
    /\ OnDate = <<Intervals[1]>>
    /\ processed.event.work_time > 0

\* an interval from the day of the run into the day after is kept
C11_KeptOnStartDate ==
    /\ pc = "done"
    /\ Len(Intervals) = Len(OnDate)
    /\ \E k \in DOMAIN OnDate :
          /\ OnDate[k].start \div MinutesPerDay = date_to_compare
          /\ OnDate[k].stop \div MinutesPerDay > date_to_compare

RawHistories == issue.changelog.histories
\* the positions of the change-log whose first item is of the status field
StatusPositions ==
    { i \in DOMAIN RawHistories :
        /\ Len(RawHistories[i].items) >= 1
        /\ RawHistories[i].items[1].field = status_field }
\* the k-th of them counted from the end of the change-log
StatusPositionFromEnd(k) ==
    CHOOSE i \in StatusPositions :
        Cardinality({ j \in StatusPositions : j >= i }) = k

\* C12: _status_changes_list turns the newest-first change-log into an
\* oldest-first StatusChange sequence: exactly the records whose first item
\* targets the status field, in reversed input order, records of other
\* fields or without items left out, none added and none twice.
C12_ReversedStatusRecords ==
    pc = "done" =>
        /\ Len(Changes) = Cardinality(StatusPositions)
        /\ \A k \in DOMAIN Changes :
              /\ Changes[k].created =
                     RawHistories[StatusPositionFromEnd(k)].created
              /\ Changes[k].to_status =
                     RawHistories[StatusPositionFromEnd(k)].items[1].toString
        /\ \A k \in DOMAIN Changes :
              k > 1 => Changes[k - 1].created <= Changes[k].created

\* a change-log of three records, the middle one of another field: two
\* status changes come out, the older first
C12_Witness ==
    /\ pc = "done"
    /\ Len(RawHistories) = 3
    /\ RawHistories[2].items # <<>>
    /\ RawHistories[2].items[1].field # status_field
    /\ Len(Changes) = 2
    /\ Changes[1].created = RawHistories[3].created
    /\ Changes[2].created = RawHistories[1].created
    /\ Changes[1].created < Changes[2].created
    /\ Changes[1].to_status # Changes[2].to_status

\* the positions of data.issues that process_jira_tasks processes
Eligible ==
    { i \in DOMAIN data.issues :
        /\ data.issues[i].fields.assignee.name = assignee_name
        /\ data.issues[i].changelog.histories # <<>>
        /\ data.issues[i].fields.status.name # "" }
\* the k-th of them
EligibleAt(k) ==
    CHOOSE i \in Eligible : Cardinality({ j \in Eligible : j <= i }) = k
ClippedSeconds(trace) ==
    SumSeq([i \in DOMAIN trace.limited_by_work_hours |->
               (trace.limited_by_work_hours[i].stop
                    - trace.limited_by_work_hours[i].start) * 60])

\* C9: process_jira_tasks computes, for the issues of the assignee that have
\* the mandatory fields, one TASK event per issue whose work_time is the sum
\* of the issue's clipped on-date interval durations, and returns them
\* without the zero-duration events and with value-equal events collapsed:
\* the list returned has no zero-duration event and no two equal events.
C9_OneEventPerIssue ==
    pc = "done" =>
        /\ Len(collected.computed) = Cardinality(Eligible)
        /\ \A k \in DOMAIN collected.computed :
              LET trace == collected.computed[k]
                  obj   == data.issues[EligibleAt(k)]
              IN  /\ trace.event.key = obj.key
                  /\ trace.event.title = obj.fields.summary
                  /\ trace.event.event_type = EventType_TASK
                  /\ trace.event.work_time = ClippedSeconds(trace)
        /\ { collected.returned[i] : i \in DOMAIN collected.returned }
             = { collected.computed[k].event :
                   k \in { j \in DOMAIN collected.computed :
                             collected.computed[j].event.work_time # 0 } }
        /\ \A i \in DOMAIN collected.returned :
              collected.returned[i].work_time # 0
        /\ \A i, j \in DOMAIN collected.returned :
              i # j => collected.returned[i] # collected.returned[j]

\* three issues processed: two with equal events collapsed to one, and one
\* of zero duration dropped
C9_Witness ==
    /\ pc = "done"
    /\ Len(collected.computed) = 3
    /\ \E i, j, z \in DOMAIN collected.computed :
          /\ i # j
          /\ collected.computed[i].event = collected.computed[j].event
          /\ data.issues[EligibleAt(i)] # data.issues[EligibleAt(j)]
          /\ collected.computed[z].event.work_time = 0
    /\ Len(collected.returned) = 1

====
